---------------------------- MODULE Spec2Model ----------------------------
(***************************************************************************)
(* A model of ez_mcp_toolbox/mcp_utils.py: MCPManager, the session pool    *)
(* that connects to several MCP servers under scoped environment           *)
(* overrides, aggregates their tool catalogs under qualified names, routes *)
(* a tool call to one session and renders the response as a string.        *)
(*                                                                         *)
(* Names (server names, tool names, function names) are sequences of       *)
(* one-character strings, so that splitting at the first underscore and    *)
(* prefixing with a server name are computed as the code computes them.    *)
(***************************************************************************)
EXTENDS Integers, Sequences, FiniteSets, TLC

VARIABLES
    environ,       \* os.environ restricted to EnvVars: variable -> value or Unset
    sessions,      \* self.sessions: the dict in insertion order, a sequence of entries
    exit_stack,    \* self.exit_stack: the contexts entered, in order
    pc,            \* where connect_all_servers / _connect_server stands
    given,         \* the list connect_all_servers was called with
    servers,       \* the descriptors connect_all_servers has still to attempt
    original_env,  \* _connect_server's local original_env, in insertion order
    exc,           \* the exception pending in _connect_server's try block
    attempts,      \* what connect_all_servers reported, one entry per attempt
    catalog,       \* what the last _get_all_tools returned
    last,          \* the last execute_tool_call: its input, its I/O and its outcome
    released,      \* the contexts the exit stack has exited, in the order of exit
    closes,        \* one entry per call of close()
    tasks          \* the _connect_server coroutines run concurrently

vars == <<environ, sessions, exit_stack, pc, given, servers, original_env, exc,
          attempts, catalog, last, released, closes, tasks>>

-----------------------------------------------------------------------------
(* Bounds of the model. *)

\* The longest list of descriptors connect_all_servers is called with.
MaxServers == 2

\* The longest content sequence a response carries.
MaxItems == 2

\* The most calls of close() in the life of one pool.
MaxCloses == 3

\* The most catalog queries a caller makes one after another.
MaxQueries == 2

-----------------------------------------------------------------------------
(* Names. *)

US == "_"

NameA == <<"a">>
NameB == <<"b">>
NameAB == <<"a", "_", "b">>
NameEmpty == <<>>

ToolT == <<"t">>
ToolBT == <<"b", "_", "t">>
ToolST == <<"s", "_", "t">>
ToolX == <<"x">>

\* A mutant of Qualify: the names are joined by a dot.
QualifyDot(server_name, tool_name) == server_name \o <<".">> \o tool_name

\* f"{server_name}_{tool_name}"
Qualify(server_name, tool_name) == server_name \o <<US>> \o tool_name

\* "_" in fn_name
HasUnderscore(name) == \E i \in 1..Len(name) : name[i] = US

FirstUnderscore(name) == CHOOSE i \in 1..Len(name) :
                            /\ name[i] = US
                            /\ \A j \in 1..(i - 1) : name[j] # US

\* A mutant of str_split_1: the split at the last underscore.
str_rsplit_1(name) ==
    IF HasUnderscore(name)
    THEN LET i == CHOOSE k \in 1..Len(name) :
                     /\ name[k] = US
                     /\ \A j \in (k + 1)..Len(name) : name[j] # US
         IN  <<SubSeq(name, 1, i - 1), SubSeq(name, i + 1, Len(name))>>
    ELSE <<name>>

\* fn_name.split("_", 1): at most one split, at the first underscore.
str_split_1(name) ==
    IF HasUnderscore(name)
    THEN LET i == FirstUnderscore(name)
         IN  <<SubSeq(name, 1, i - 1), SubSeq(name, i + 1, Len(name))>>
    ELSE <<name>>

-----------------------------------------------------------------------------
(* The process environment and the descriptors. *)

EnvVars == {"X", "Y"}

\* os.environ.get(key) is None: the variable is not set.
Unset == "<unset>"

\* A value of a descriptor's env that is not a string (a number in the JSON
\* configuration, which load_mcp_config keeps as it is): os.environ[key] = value
\* raises TypeError.
NotAString == "<not a str>"

\* The environment the process starts with: X is not set, Y is.
InitialEnviron == [k \in EnvVars |-> IF k = "X" THEN Unset ELSE "y0"]

EnvItem(k, v) == [key |-> k, value |-> v]

\* server_config.env, a dict in insertion order; empty stands for None and {}.
EnvChoices == { <<>>,
                <<EnvItem("X", "x1")>>,
                <<EnvItem("Y", "y1"), EnvItem("X", "x2")>>,
                <<EnvItem("Y", "y2"), EnvItem("X", NotAString)>>,
                <<EnvItem("X", NotAString)>> }

\* A ServerConfig: description, command and args do not bear on the pool.
ServerConfig(n, e) == [name |-> n, env |-> e]

SeqsUpTo(S, n) == UNION { [1..k -> S] : k \in 0..n }

\* A mutant of ApplyEnv: the overrides replace the environment, and the
\* variables that are not overridden are unset.
RECURSIVE ApplyEnvExclusive(_, _, _, _)
ApplyEnvExclusive(env, items, i, orig) ==
    IF i > Len(items)
    THEN [environ |-> env, original_env |-> orig, raised |-> FALSE]
    ELSE LET k == items[i].key
             v == items[i].value
             orig2 == Append(orig, [key |-> k, old |-> env[k]])
             base == IF i = 1 THEN [x \in EnvVars |-> Unset] ELSE env
         IN  IF v = NotAString
             THEN [environ |-> env, original_env |-> orig2, raised |-> TRUE]
             ELSE ApplyEnvExclusive([base EXCEPT ![k] = v], items, i + 1, orig2)

\* for key, value in server_config.env.items():
\*     original_env[key] = os.environ.get(key); os.environ[key] = value
RECURSIVE ApplyEnv(_, _, _, _)
ApplyEnv(env, items, i, orig) ==
    IF i > Len(items)
    THEN [environ |-> env, original_env |-> orig, raised |-> FALSE]
    ELSE LET k == items[i].key
             v == items[i].value
             orig2 == Append(orig, [key |-> k, old |-> env[k]])
         IN  IF v = NotAString
             THEN [environ |-> env, original_env |-> orig2, raised |-> TRUE]
             ELSE ApplyEnv([env EXCEPT ![k] = v], items, i + 1, orig2)

\* A mutant of RestoreEnv: a variable that had no prior value is left as it is.
RECURSIVE RestoreEnvNoPop(_, _, _)
RestoreEnvNoPop(env, orig, i) ==
    IF i > Len(orig)
    THEN env
    ELSE IF orig[i].old = Unset
         THEN RestoreEnvNoPop(env, orig, i + 1)
         ELSE RestoreEnvNoPop([env EXCEPT ![orig[i].key] = orig[i].old], orig, i + 1)

\* for key, original_value in original_env.items():
\*     os.environ.pop(key, None) if original_value is None
\*     else os.environ[key] = original_value
RECURSIVE RestoreEnv(_, _, _)
RestoreEnv(env, orig, i) ==
    IF i > Len(orig)
    THEN env
    ELSE IF orig[i].old = Unset
         THEN RestoreEnv([env EXCEPT ![orig[i].key] = Unset], orig, i + 1)
         ELSE RestoreEnv([env EXCEPT ![orig[i].key] = orig[i].old], orig, i + 1)

-----------------------------------------------------------------------------
(* The session pool. *)

SessionNames(sess) == { sess[i].name : i \in 1..Len(sess) }

IndexOfName(sess, n) == CHOOSE i \in 1..Len(sess) : sess[i].name = n

\* self.sessions[name] = session: a key the dict holds keeps its place and
\* gets the new value, a new key goes last.
DictSet(sess, entry) ==
    IF entry.name \in SessionNames(sess)
    THEN [sess EXCEPT ![IndexOfName(sess, entry.name)] = entry]
    ELSE Append(sess, entry)

\* The session the attempt in progress opens: one per attempt.
NextSid == Len(attempts) + 1

\* A mutant of AfterAttempt: a failed attempt ends connect_all_servers.
AfterAttemptAbort(rest, outcome) ==
    IF outcome # "ok"
    THEN [servers |-> <<>>, pc |-> "raised"]
    ELSE [servers |-> rest, pc |-> IF rest = <<>> THEN "idle" ELSE "env"]

\* connect_all_servers' loop: the attempt's outcome is reported, an exception
\* is caught, and the loop goes on to the next descriptor or returns.
AfterAttempt(rest, outcome) ==
    [servers |-> rest, pc |-> IF rest = <<>> THEN "idle" ELSE "env"]

-----------------------------------------------------------------------------
(* The exit stack. *)

\* A context entered on the exit stack: the transport or the session of the
\* attempt that opened it.
Context(k, i) == [kind |-> k, sid |-> i]

Reverse(s) == [i \in 1..Len(s) |-> s[Len(s) + 1 - i]]

\* A mutant of aclose: the callbacks are run and stay registered.
acloseKeepsStack(stack) == [released |-> Reverse(stack), exit_stack |-> stack]

\* A mutant of aclose: the contexts are exited in the order they were entered.
acloseFifo(stack) == [released |-> stack, exit_stack |-> <<>>]

\* A mutant of aclose: only the protocol sessions are exited.
acloseSessionsOnly(stack) ==
    [released |-> SelectSeq(Reverse(stack), LAMBDA c : c.kind = "session"),
     exit_stack |-> <<>>]

\* AsyncExitStack.aclose(): every registered context is popped and exited, the
\* last entered first; one whose exit raises does not keep the others from
\* being exited. The stack is empty afterwards.
aclose(stack) == [released |-> Reverse(stack), exit_stack |-> <<>>]

-----------------------------------------------------------------------------
(* The aggregated catalog. *)

\* The tool lists a backend may report from list_tools, in its native order.
ToolLists == { <<>>, <<ToolT>>, <<ToolBT, ToolT>>, <<ToolST>>, <<ToolT, ToolT>> }

\* _mcp_tools_to_openai_tools: one function tool per tool of the response, in
\* the response's order, named as the backend names it.
mcp_tools_to_openai_tools(tools) ==
    [i \in 1..Len(tools) |-> [name |-> tools[i]]]

\* A mutant of PrefixTools: the tool names are left as the backend reports them.
PrefixToolsNoPrefix(server_name, server_tools) ==
    [i \in 1..Len(server_tools) |->
        [name |-> server_tools[i].name,
         server |-> server_name, local |-> server_tools[i].name]]

\* tool["function"]["name"] = f"{server_name}_{tool['function']['name']}".
\* server and local record where the entry comes from; the code returns the name.
PrefixTools(server_name, server_tools) ==
    [i \in 1..Len(server_tools) |->
        [name |-> Qualify(server_name, server_tools[i].name),
         server |-> server_name, local |-> server_tools[i].name]]

\* A mutant of GetAllTools: the sessions are visited last to first.
RECURSIVE GetAllToolsReversed(_, _, _)
GetAllToolsReversed(sess, failing, i) ==
    IF i > Len(sess)
    THEN <<>>
    ELSE GetAllToolsReversed(sess, failing, i + 1)
         \o (IF sess[i].name \in failing
             THEN <<>>
             ELSE PrefixTools(sess[i].name, mcp_tools_to_openai_tools(sess[i].tools)))

\* A mutant of GetAllTools: a session whose list_tools raises ends the query
\* with what was gathered before it.
RECURSIVE GetAllToolsAbort(_, _, _)
GetAllToolsAbort(sess, failing, i) ==
    IF i > Len(sess) \/ sess[i].name \in failing
    THEN <<>>
    ELSE PrefixTools(sess[i].name, mcp_tools_to_openai_tools(sess[i].tools))
         \o GetAllToolsAbort(sess, failing, i + 1)

\* A mutant of GetAllTools: the tools a session reported before are used.
RECURSIVE GetAllToolsCached(_, _, _)
GetAllToolsCached(sess, failing, i) ==
    IF i > Len(sess)
    THEN <<>>
    ELSE (IF sess[i].name \in failing
          THEN <<>>
          ELSE PrefixTools(sess[i].name, mcp_tools_to_openai_tools(sess[i].was)))
         \o GetAllToolsCached(sess, failing, i + 1)

\* _get_all_tools: for each session in the pool's order, the prefixed tools of
\* its list_tools response; a session whose list_tools (or translation) raises
\* is skipped with a warning.
RECURSIVE GetAllTools(_, _, _)
GetAllTools(sess, failing, i) ==
    IF i > Len(sess)
    THEN <<>>
    ELSE (IF sess[i].name \in failing
          THEN <<>>
          ELSE PrefixTools(sess[i].name, mcp_tools_to_openai_tools(sess[i].tools)))
         \o GetAllTools(sess, failing, i + 1)

-----------------------------------------------------------------------------
(* JSON texts and json.loads. *)

RawNone == "<None>"
RawEmptyObject == "{}"
RawObject == "{\"k\":1}"
RawArray == "[1]"
RawNotJson == "not json"
\* "[" repeated beyond the interpreter's recursion limit: not a JSON text.
RawDeep == "[[[[ ... 100000 times"

ImageText == "{\"type\":\"image_result\",\"image_base64\":\"iVBOR\"}"
TypeOnlyText == "{\"type\":\"image_result\"}"
PlainText == "hello"

JValue(t, ks, ty) == [jtype |-> t, keys |-> ks, type |-> ty]
JNull == JValue("null", {}, "")
EmptyObject == JValue("object", {}, "")
ImageDict == JValue("object", {"type", "image_base64"}, "image_result")

Parsed(v) == [outcome |-> "value", value |-> v]
Raised(e) == [outcome |-> e, value |-> JNull]

\* json.loads on the texts of the model: the value, or the exception raised.
json_loads(s) ==
    CASE s = RawEmptyObject -> Parsed(EmptyObject)
      [] s = RawObject      -> Parsed(JValue("object", {"k"}, ""))
      [] s = RawArray       -> Parsed(JValue("array", {}, ""))
      [] s = ImageText      -> Parsed(ImageDict)
      [] s = TypeOnlyText   -> Parsed(JValue("object", {"type"}, "image_result"))
      [] s = RawDeep        -> Raised("RecursionError")
      [] OTHER              -> Raised("JSONDecodeError")

\* args_raw = tool_call.function.arguments or "{}"
\* try: args = json.loads(args_raw) except json.JSONDecodeError: args = {}
ParseArguments(arguments) ==
    LET args_raw == IF arguments \in {RawNone, ""} THEN RawEmptyObject ELSE arguments
        r == json_loads(args_raw)
    IN  IF r.outcome = "value"
        THEN [raised |-> FALSE, args |-> r.value]
        ELSE IF r.outcome = "JSONDecodeError"
             THEN [raised |-> FALSE, args |-> EmptyObject]
             ELSE [raised |-> TRUE, args |-> JNull]

-----------------------------------------------------------------------------
(* Resolving a function name to a session. *)

\* Lines 169-182: the server name (none: the empty sequence, else a sequence
\* holding that one name) and the tool name the call goes on with.
ResolveNames(fn_name) ==
    IF HasUnderscore(fn_name)
    THEN LET parts == str_split_1(fn_name)
         IN  IF Len(parts) = 2
             THEN [server_name |-> <<parts[1]>>, actual_tool_name |-> parts[2]]
             ELSE [server_name |-> <<>>, actual_tool_name |-> fn_name]
    ELSE [server_name |-> <<>>, actual_tool_name |-> fn_name]

\* server_name and server_name in self.sessions: None and "" are both false.
UsesPrefix(sess, server_name) ==
    /\ Len(server_name) = 1
    /\ server_name[1] # <<>>
    /\ server_name[1] \in SessionNames(sess)

Listed(n, ok) == [server |-> n, ok |-> ok]

\* Lines 189-197: each session of the pool in order is asked for its tools; one
\* whose list_tools raises is passed over; the first whose tools hold the name
\* is taken and the scan ends. found is its place in the pool, 0 for none.
RECURSIVE ScanSessions(_, _, _, _)
ScanSessions(sess, actual_tool_name, failing, i) ==
    IF i > Len(sess)
    THEN [found |-> 0, listed |-> <<>>]
    ELSE IF sess[i].name \in failing
         THEN LET rest == ScanSessions(sess, actual_tool_name, failing, i + 1)
              IN  [found |-> rest.found,
                   listed |-> <<Listed(sess[i].name, FALSE)>> \o rest.listed]
         ELSE IF \E j \in 1..Len(sess[i].tools) : sess[i].tools[j] = actual_tool_name
              THEN [found |-> i, listed |-> <<Listed(sess[i].name, TRUE)>>]
              ELSE LET rest == ScanSessions(sess, actual_tool_name, failing, i + 1)
                   IN  [found |-> rest.found,
                        listed |-> <<Listed(sess[i].name, TRUE)>> \o rest.listed]

\* A mutant of SelectSession: the session the prefix names is taken only when
\* it has the tool.
SelectSessionChecked(sess, names, failing) ==
    IF /\ UsesPrefix(sess, names.server_name)
       /\ LET e == sess[IndexOfName(sess, names.server_name[1])]
          IN  \E j \in 1..Len(e.tools) : e.tools[j] = names.actual_tool_name
    THEN [found |-> IndexOfName(sess, names.server_name[1]), listed |-> <<>>]
    ELSE ScanSessions(sess, names.actual_tool_name, failing, 1)

\* Lines 184-200: the session the call goes to.
SelectSession(sess, names, failing) ==
    IF UsesPrefix(sess, names.server_name)
    THEN [found |-> IndexOfName(sess, names.server_name[1]), listed |-> <<>>]
    ELSE ScanSessions(sess, names.actual_tool_name, failing, 1)

-----------------------------------------------------------------------------
(* The backend's response to call_tool and its rendering. *)

\* max_result_size = 10 * 1024 * 1024
max_result_size == 10 * 1024 * 1024

\* A content item without a text attribute, and one whose text is not a str.
NoText == "<no text attribute>"
NonStrText == "<text is not a str>"

ItemTexts == {ImageText, TypeOnlyText, RawObject, PlainText, NoText, NonStrText}

Content(f, its, v) == [form |-> f, items |-> its, value |-> v]
NoContent == Content("absent", <<>>, JNull)

\* result.content: a list of content items (each given by its text), a dict, a
\* str, an object that is none of these and that json.dumps rejects, or absent
\* (no content attribute, or None).
Contents(n) ==
    { Content("list", its, JNull) : its \in SeqsUpTo(ItemTexts, n) }
    \cup { Content("dict", <<>>, ImageDict),
           Content("dict", <<>>, JValue("object", {"k"}, "")),
           Content("str", <<>>, JNull),
           Content("object", <<>>, JNull),
           NoContent }

\* What call_tool does: it raises, or returns a result with this content.
\* size is the length of the string the content (the result, when it has no
\* content; the exception, when one is raised) stringifies to; str_raises: its
\* __str__ raises; is_error: the result's isError flag, by which a backend
\* reports that the tool failed.
Response(r, c, n, sr, ie) ==
    [raises |-> r, content |-> c, size |-> n, str_raises |-> sr, is_error |-> ie]
NoResponse == Response(FALSE, NoContent, 0, FALSE, FALSE)

Sizes == {2, max_result_size, max_result_size + 1, 2 * max_result_size}

Ret(k, t, n, v, c) == [kind |-> k, tool |-> t, size |-> n, via |-> v, content |-> c]
NoRet == Ret("none", <<>>, 0, "", NoContent)

\* A mutant of IsImageResult: the payload is looked for under another key.
IsImageResultOtherKey(v) ==
    /\ v.jtype = "object"
    /\ v.type = "image_result"
    /\ "image" \in v.keys

\* isinstance(v, dict) and v.get("type") == "image_result" and "image_base64" in v
IsImageResult(v) ==
    /\ v.jtype = "object"
    /\ v.type = "image_result"
    /\ "image_base64" \in v.keys

\* Lines 220-237 on the first item: "image" (the placeholder is returned),
\* "pass" (no text attribute, a text that is no JSON text, or no image
\* result), "raise" (an exception the inner except clause does not name).
FirstItem(text) ==
    IF text = NoText
    THEN "pass"
    ELSE IF text = NonStrText
         THEN "raise"
         ELSE LET r == json_loads(text)
              IN  IF r.outcome = "value"
                  THEN (IF IsImageResult(r.value) THEN "image" ELSE "pass")
                  ELSE IF r.outcome = "JSONDecodeError" THEN "pass" ELSE "raise"

Step(t, v) == [tag |-> t, via |-> v]

\* str(x): the string, unless __str__ raises.
Str(resp, v) == IF resp.str_raises THEN Step("raise", "") ELSE Step("string", v)

\* json.dumps(content_data, separators=(",", ":")): TypeError for an object
\* that is not JSON serializable.
json_dumps(content) ==
    IF content.form \in {"dict", "str"} \/ (content.form = "list" /\ content.items = <<>>)
    THEN Step("string", "json.dumps(content)")
    ELSE Step("raise", "")

\* Lines 213-254, the body of the inner try: "return" (the image placeholder),
\* "string" (content_str is set) or "raise".
InspectContent(resp) ==
    LET c == resp.content
    IN  IF c.form = "list" /\ Len(c.items) > 0
        THEN LET first == FirstItem(c.items[1])
             IN  IF first = "image"
                 THEN Step("return", "")
                 ELSE IF first = "raise"
                      THEN Step("raise", "")
                      ELSE Str(resp, "str(content)")
        ELSE IF c.form = "dict" /\ IsImageResult(c.value)
             THEN Step("return", "")
             ELSE json_dumps(c)

\* Lines 211-262: an exception of the inner try is caught and content_str is
\* str(result.content); a result without content gives str(result).
RenderContent(resp) ==
    IF resp.content.form # "absent"
    THEN LET r == InspectContent(resp)
         IN  IF r.tag = "raise" THEN Str(resp, "str(content)") ELSE r
    ELSE Str(resp, "str(result)")

\* A mutant of CheckSize: a string of exactly max_result_size is too large.
CheckSizeInclusive(tool, r, resp) ==
    IF resp.size >= max_result_size
    THEN Ret("summary", tool, resp.size, "", NoContent)
    ELSE Ret("body", tool, resp.size, r.via, resp.content)

\* Lines 269-285: the summary for a string longer than max_result_size, else
\* the string itself.
CheckSize(tool, r, resp) ==
    IF resp.size > max_result_size
    THEN Ret("summary", tool, resp.size, "", NoContent)
    ELSE Ret("body", tool, resp.size, r.via, resp.content)

\* Lines 202-289: call_tool, the rendering of its result, and the outer except
\* clause, which turns any exception into the error string. The error string
\* holds the text of the exception: that of call_tool's has resp.size
\* characters; that of a __str__ that raised is not the backend's text and is
\* taken as empty.
CallAndRender(tool, resp) ==
    IF resp.raises
    THEN Ret("error", tool, resp.size, "", NoContent)
    ELSE LET r == RenderContent(resp)
         IN  CASE r.tag = "return" -> Ret("placeholder", tool, 0, "", NoContent)
               [] r.tag = "string" -> CheckSize(tool, r, resp)
               [] OTHER            -> Ret("error", tool, 0, "", NoContent)

\* len(f"{n:,}"): the digits of n and a comma before each group of three.
RECURSIVE Digits(_)
Digits(n) == IF n < 10 THEN 1 ELSE 1 + Digits(n \div 10)

GroupedLen(n) == Digits(n) + (Digits(n) - 1) \div 3

\* The length of the string returned: the body; the placeholder of lines 235
\* and 250; the summary of lines 276-283; the not-found string of line 200;
\* the error string of line 289, which holds the text of the exception.
RetLen(ret) ==
    CASE ret.kind = "body"        -> ret.size
      [] ret.kind = "placeholder" -> 32 + Len(ret.tool)
      [] ret.kind = "summary"     -> 197 + 2 * Len(ret.tool) + GroupedLen(ret.size)
      [] ret.kind = "notfound"    -> 48 + Len(ret.tool)
      [] ret.kind = "error"       -> 25 + Len(ret.tool) + ret.size
      [] OTHER                    -> 0

Called(entry, tool, args) ==
    [server |-> entry.name, sid |-> entry.sid, tool |-> tool, args |-> args]

Outcome(fn, a, raised, listed, called, resp, ret) ==
    [done |-> TRUE, fn_name |-> fn, arguments |-> a, raised |-> raised,
     listed |-> listed, called |-> called, response |-> resp, ret |-> ret]

NoCall == [done |-> FALSE, fn_name |-> <<>>, arguments |-> RawNone, raised |-> FALSE,
           listed |-> <<>>, called |-> <<>>, response |-> NoResponse, ret |-> NoRet]

\* A mutant of ExecuteToolCall: a name that resolves to no session is sent to
\* the first session of the pool all the same.
ExecuteToolCallAnyway(sess, fn_name, arguments, failing, resp) ==
    LET p == ParseArguments(arguments)
        names == ResolveNames(fn_name)
        sel == SelectSession(sess, names, failing)
        tool == names.actual_tool_name
    IN  IF p.raised
        THEN Outcome(fn_name, arguments, TRUE, <<>>, <<>>, NoResponse, NoRet)
        ELSE IF sel.found = 0
             THEN Outcome(fn_name, arguments, FALSE, sel.listed,
                          IF sess = <<>> THEN <<>> ELSE <<Called(sess[1], tool, p.args)>>,
                          NoResponse, Ret("notfound", tool, 0, "", NoContent))
             ELSE Outcome(fn_name, arguments, FALSE, sel.listed,
                          <<Called(sess[sel.found], tool, p.args)>>, resp,
                          CallAndRender(tool, resp))

\* execute_tool_call, lines 159-289: what it is called with, the list_tools and
\* call_tool requests it issues, and the string it returns (raised: an
\* exception leaves it instead).
ExecuteToolCall(sess, fn_name, arguments, failing, resp) ==
    LET p == ParseArguments(arguments)
        names == ResolveNames(fn_name)
        sel == SelectSession(sess, names, failing)
        tool == names.actual_tool_name
    IN  IF p.raised
        THEN Outcome(fn_name, arguments, TRUE, <<>>, <<>>, NoResponse, NoRet)
        ELSE IF sel.found = 0
             THEN Outcome(fn_name, arguments, FALSE, sel.listed, <<>>, NoResponse,
                          Ret("notfound", tool, 0, "", NoContent))
             ELSE Outcome(fn_name, arguments, FALSE, sel.listed,
                          <<Called(sess[sel.found], tool, p.args)>>, resp,
                          CallAndRender(tool, resp))

-----------------------------------------------------------------------------
(* The state machine. *)

Tasks == {1, 2}

NoTask == [pc |-> "none", config |-> [name |-> <<>>, env |-> <<>>],
           original_env |-> <<>>]
NoTasks == [t \in Tasks |-> NoTask]

\* count: the queries made one after another; before: the one before the last;
\* stale: a backend has changed its tools since the catalog was returned.
NoCatalog == [queried |-> FALSE, failed |-> {}, tools |-> <<>>, count |-> 0,
              before |-> [failed |-> {}, tools |-> <<>>], stale |-> FALSE]

\* MCPManager.__init__: no session, nothing on the exit stack.
Init ==
    /\ environ = InitialEnviron
    /\ sessions = <<>>
    /\ exit_stack = <<>>
    /\ pc = "new"
    /\ given = <<>>
    /\ servers = <<>>
    /\ original_env = <<>>
    /\ exc = "none"
    /\ attempts = <<>>
    /\ catalog = NoCatalog
    /\ last = NoCall
    /\ released = <<>>
    /\ closes = <<>>
    /\ tasks = NoTasks

\* connect_all_servers(servers) is called: nothing to do for an empty list.
connect_all_servers(lists) ==
    /\ pc = "new"
    /\ \E list \in lists :
          /\ given' = list
          /\ servers' = list
          /\ pc' = IF list = <<>> THEN "idle" ELSE "env"
    /\ UNCHANGED <<released, closes, tasks>>
    /\ UNCHANGED <<environ, sessions, exit_stack, original_env, exc, attempts,
                   catalog, last>>

\* _connect_server, lines 109-114: the overrides are applied, before the try
\* block. An override that cannot be set ends the attempt with its exception,
\* which connect_all_servers reports.
connect_server_env ==
    /\ pc = "env"
    /\ LET server_config == Head(servers)
           r == ApplyEnv(environ, server_config.env, 1, <<>>)
           next == AfterAttempt(Tail(servers), "env_error")
       IN  /\ environ' = r.environ
           /\ IF r.raised
              THEN /\ attempts' = Append(attempts,
                          [name |-> server_config.name, outcome |-> "env_error"])
                   /\ servers' = next.servers
                   /\ pc' = next.pc
                   /\ original_env' = <<>>
              ELSE /\ original_env' = r.original_env
                   /\ pc' = "start"
                   /\ UNCHANGED <<attempts, servers>>
    /\ UNCHANGED <<released, closes, tasks>>
    /\ UNCHANGED <<sessions, exit_stack, given, exc, catalog, last>>

\* Line 123: the transport (the backend process) is entered on the exit stack,
\* or its start fails.
connect_server_start ==
    /\ pc = "start"
    /\ \E ok \in BOOLEAN :
          IF ok
          THEN /\ exit_stack' = Append(exit_stack,
                                       [kind |-> "transport", sid |-> NextSid])
               /\ pc' = "handshake"
               /\ exc' = exc
          ELSE /\ exc' = "start_failed"
               /\ pc' = "restore"
               /\ exit_stack' = exit_stack
    /\ UNCHANGED <<released, closes, tasks>>
    /\ UNCHANGED <<environ, sessions, given, servers, original_env, attempts,
                   catalog, last>>

\* A mutant of connect_server_handshake: the session is put in the pool
\* before initialize() is awaited.
connect_server_handshake_early(toolLists) ==
    /\ pc = "handshake"
    /\ exit_stack' = Append(exit_stack, [kind |-> "session", sid |-> NextSid])
    /\ \E ok \in BOOLEAN, tools \in toolLists :
          /\ sessions' = DictSet(sessions, [name |-> Head(servers).name,
                                             sid |-> NextSid, tools |-> tools,
                                             was |-> tools])
          /\ exc' = IF ok THEN "none" ELSE "handshake_failed"
    /\ pc' = "restore"
    /\ UNCHANGED <<released, closes, tasks>>
    /\ UNCHANGED <<environ, given, servers, original_env, attempts, catalog, last>>

\* Lines 125-130: the ClientSession is entered on the exit stack and
\* initialized; when initialize() returns, the session is put in the pool.
\* tools is what the backend reports from list_tools from now on, was what it
\* reported before it last changed its tools.
connect_server_handshake(toolLists) ==
    /\ pc = "handshake"
    /\ exit_stack' = Append(exit_stack, [kind |-> "session", sid |-> NextSid])
    /\ \E ok \in BOOLEAN, tools \in toolLists :
          IF ok
          THEN /\ sessions' = DictSet(sessions, [name |-> Head(servers).name,
                                                  sid |-> NextSid, tools |-> tools,
                                                  was |-> tools])
               /\ exc' = "none"
          ELSE /\ exc' = "handshake_failed"
               /\ sessions' = sessions
    /\ pc' = "restore"
    /\ UNCHANGED <<released, closes, tasks>>
    /\ UNCHANGED <<environ, given, servers, original_env, attempts, catalog, last>>

\* Lines 131-138, the finally clause: the captured values are restored; then
\* connect_all_servers reports the attempt and goes on.
connect_server_restore ==
    /\ pc = "restore"
    /\ LET outcome == IF exc = "none" THEN "ok" ELSE exc
           next == AfterAttempt(Tail(servers), outcome)
       IN  /\ environ' = RestoreEnv(environ, original_env, 1)
           /\ attempts' = Append(attempts,
                                 [name |-> Head(servers).name, outcome |-> outcome])
           /\ servers' = next.servers
           /\ pc' = next.pc
    /\ original_env' = <<>>
    /\ exc' = "none"
    /\ UNCHANGED <<released, closes, tasks>>
    /\ UNCHANGED <<sessions, exit_stack, given, catalog, last>>

\* _get_all_tools; failing: the sessions whose list_tools raises this time;
\* queries: how many queries the caller makes one after another.
get_all_tools(queries) ==
    /\ pc = "idle"
    /\ catalog.count < queries
    /\ ~last.done
    /\ \E failing \in SUBSET SessionNames(sessions) :
          catalog' = [queried |-> TRUE, failed |-> failing,
                      tools |-> GetAllTools(sessions, failing, 1),
                      count |-> catalog.count + 1,
                      before |-> [failed |-> catalog.failed, tools |-> catalog.tools],
                      stale |-> FALSE]
    /\ UNCHANGED <<released, closes, tasks>>
    /\ UNCHANGED <<environ, sessions, exit_stack, pc, given, servers,
                   original_env, exc, attempts, last>>

CatalogNames == { catalog.tools[i].name : i \in 1..Len(catalog.tools) }

\* execute_tool_call(tool_call); failing: the sessions whose list_tools raises
\* this time; resp: what the backend does with the call_tool it may get. A
\* caller that holds a catalog calls a tool by a name of the catalog.
execute_tool_call(fnNames, rawArguments, responses) ==
    /\ pc = "idle"
    /\ ~last.done
    /\ \E fn_name \in fnNames, arguments \in rawArguments,
          failing \in SUBSET SessionNames(sessions), resp \in responses :
          /\ catalog.queried => fn_name \in CatalogNames
          /\ last' = ExecuteToolCall(sessions, fn_name, arguments, failing, resp)
    /\ UNCHANGED <<released, closes, tasks>>
    /\ UNCHANGED <<environ, sessions, exit_stack, pc, given, servers,
                   original_env, exc, attempts, catalog>>

\* A backend adds or removes tools: its list_tools answers with another list
\* from now on. Each backend does so once at most, and not while the caller
\* holds the result of a call.
backend_changes_tools(toolLists) ==
    /\ pc = "idle"
    /\ ~last.done
    /\ \E i \in 1..Len(sessions), tools \in toolLists :
          /\ sessions[i].was = sessions[i].tools
          /\ tools # sessions[i].tools
          /\ sessions' = [sessions EXCEPT ![i].was = sessions[i].tools,
                                           ![i].tools = tools]
    /\ catalog' = [catalog EXCEPT !.stale = catalog.queried]
    /\ UNCHANGED <<released, closes, tasks>>
    /\ UNCHANGED <<environ, exit_stack, pc, given, servers, original_env, exc,
                   attempts, last>>

\* The caller is done with the catalog and the result it holds.
caller_continues ==
    /\ pc = "idle"
    /\ catalog.queried \/ last.done
    /\ catalog' = NoCatalog
    /\ last' = NoCall
    /\ UNCHANGED <<released, closes, tasks>>
    /\ UNCHANGED <<environ, sessions, exit_stack, pc, given, servers,
                   original_env, exc, attempts>>

\* The coroutines of _connect_server a caller runs at the same time (with
\* asyncio.gather, say) take turns at their awaits: what one does between two
\* awaits is one step.
Task(p, c, o) == [pc |-> p, config |-> c, original_env |-> o]

\* _connect_server(config) is started as task t and runs to its first await,
\* the launch of line 123: the overrides are applied (lines 109-114).
task_connect_server(t, configs) ==
    /\ pc = "new"
    /\ tasks[t].pc = "none"
    /\ \E config \in configs :
          LET r == ApplyEnv(environ, config.env, 1, <<>>)
          IN  /\ environ' = r.environ
              /\ tasks' = [tasks EXCEPT ![t] =
                              IF r.raised
                              THEN Task("failed", config, <<>>)
                              ELSE Task("launching", config, r.original_env)]
    /\ UNCHANGED <<sessions, exit_stack, pc, given, servers, original_env, exc,
                   attempts, catalog, last, released, closes>>

\* Task t resumes from the launch: the transport is on the exit stack and the
\* task goes on to the await of the handshake, or the launch failed and the
\* finally clause restores what the task captured.
task_launched(t) ==
    /\ tasks[t].pc = "launching"
    /\ \E ok \in BOOLEAN :
          IF ok
          THEN /\ exit_stack' = Append(exit_stack, [kind |-> "transport", sid |-> t])
               /\ tasks' = [tasks EXCEPT ![t].pc = "handshaking"]
               /\ environ' = environ
          ELSE /\ environ' = RestoreEnv(environ, tasks[t].original_env, 1)
               /\ tasks' = [tasks EXCEPT ![t].pc = "failed"]
               /\ exit_stack' = exit_stack
    /\ UNCHANGED <<sessions, pc, given, servers, original_env, exc, attempts,
                   catalog, last, released, closes>>

\* Task t resumes from the handshake: the session is on the exit stack and,
\* when initialize() returned, in the pool; the finally clause restores what
\* the task captured.
task_handshaken(t) ==
    /\ tasks[t].pc = "handshaking"
    /\ exit_stack' = Append(exit_stack, [kind |-> "session", sid |-> t])
    /\ environ' = RestoreEnv(environ, tasks[t].original_env, 1)
    /\ \E ok \in BOOLEAN :
          IF ok
          THEN /\ sessions' = DictSet(sessions, [name |-> tasks[t].config.name,
                                                  sid |-> t, tools |-> <<ToolT>>,
                                                  was |-> <<ToolT>>])
               /\ tasks' = [tasks EXCEPT ![t].pc = "done"]
          ELSE /\ sessions' = sessions
               /\ tasks' = [tasks EXCEPT ![t].pc = "failed"]
    /\ UNCHANGED <<pc, given, servers, original_env, exc, attempts, catalog, last,
                   released, closes>>

\* close(): await self.exit_stack.aclose(). raises: the exit of one of the
\* contexts raised, and aclose raises it when all are exited.
close ==
    /\ pc = "idle"
    /\ Len(closes) < MaxCloses
    /\ LET r == aclose(exit_stack)
       IN  /\ released' = released \o r.released
           /\ exit_stack' = r.exit_stack
           /\ \E raises \in BOOLEAN :
                 /\ raises => r.released # <<>>
                 /\ closes' = Append(closes, [released |-> Len(r.released),
                                              raised |-> raises])
    /\ UNCHANGED tasks
    /\ UNCHANGED <<environ, sessions, pc, given, servers, original_env, exc,
                   attempts, catalog, last>>

-----------------------------------------------------------------------------
(* Specifications. *)

BackendNames == {NameA, NameB, NameAB, NameEmpty}
LocalNames == {ToolT, ToolBT, ToolST}

\* The function names a call is made with: every qualified name, every local
\* name bare, a name no backend knows, and the empty name.
FnNames == { Qualify(b, t) : b \in BackendNames, t \in LocalNames }
           \cup LocalNames \cup {ToolX, <<>>}

\* Spec: pools of all the backend names and tool lists, calls by every name.
RouteConfigs == { ServerConfig(n, <<>>) : n \in BackendNames }
RouteArguments == {RawObject}
RouteResponses ==
    { Response(FALSE, Content("list", <<PlainText>>, JNull), 2, FALSE, FALSE) }

Next ==
    \/ connect_all_servers(SeqsUpTo(RouteConfigs, MaxServers))
    \/ connect_server_env
    \/ connect_server_start
    \/ connect_server_handshake(ToolLists)
    \/ connect_server_restore
    \/ get_all_tools(1)
    \/ execute_tool_call(FnNames, RouteArguments, RouteResponses)
    \/ caller_continues

Spec == Init /\ [][Next]_vars

\* SpecEnv: connect attempts under every environment override.
EnvConfigs == { ServerConfig(n, e) : n \in {NameA, NameB}, e \in EnvChoices }

NextEnv ==
    \/ connect_all_servers(SeqsUpTo(EnvConfigs, MaxServers))
    \/ connect_server_env
    \/ connect_server_start
    \/ connect_server_handshake({<<ToolT>>})
    \/ connect_server_restore

SpecEnv == Init /\ [][NextEnv]_vars

\* SpecRender: one backend, calls with every argument text and every response.
RenderArguments == {RawNone, "", RawEmptyObject, RawObject, RawArray, RawNotJson, RawDeep}
RenderResponses ==
    { Response(TRUE, NoContent, n, FALSE, FALSE) : n \in Sizes }
    \cup { Response(FALSE, c, n, sr, ie) : c \in Contents(MaxItems), n \in Sizes,
                                           sr \in BOOLEAN, ie \in BOOLEAN }

NextRender ==
    \/ connect_all_servers({<<ServerConfig(NameA, <<>>)>>})
    \/ connect_server_env
    \/ connect_server_start
    \/ connect_server_handshake({<<ToolT>>})
    \/ connect_server_restore
    \/ execute_tool_call({Qualify(NameA, ToolT), ToolT, ToolX},
                         RenderArguments, RenderResponses)
    \/ caller_continues

SpecRender == Init /\ [][NextRender]_vars

\* SpecClose: connect attempts of every outcome, then calls of close().
CloseConfigs == { ServerConfig(n, <<>>) : n \in {NameA, NameB} }

NextClose ==
    \/ connect_all_servers(SeqsUpTo(CloseConfigs, MaxServers))
    \/ connect_server_env
    \/ connect_server_start
    \/ connect_server_handshake({<<ToolT>>})
    \/ connect_server_restore
    \/ close

SpecClose == Init /\ [][NextClose]_vars

\* SpecConc: two connect attempts at the same time, under overrides that can
\* all be set.
ConcConfigs == { c \in EnvConfigs :
                    \A i \in 1..Len(c.env) : c.env[i].value # NotAString }

NextConc ==
    \/ \E t \in Tasks : task_connect_server(t, ConcConfigs)
    \/ \E t \in Tasks : task_launched(t)
    \/ \E t \in Tasks : task_handshaken(t)

SpecConc == Init /\ [][NextConc]_vars

\* SpecFresh: backends that change their tools between catalog queries and
\* calls by bare names.
FreshToolLists == { <<>>, <<ToolT>>, <<ToolBT, ToolT>> }

NextFresh ==
    \/ connect_all_servers(SeqsUpTo(CloseConfigs, MaxServers))
    \/ connect_server_env
    \/ connect_server_start
    \/ connect_server_handshake(FreshToolLists)
    \/ connect_server_restore
    \/ backend_changes_tools(FreshToolLists)
    \/ get_all_tools(MaxQueries)
    \/ execute_tool_call({ToolT, ToolX}, RouteArguments, RouteResponses)
    \/ caller_continues

SpecFresh == Init /\ [][NextFresh]_vars

\* SpecShutdown: catalog queries and calls before and after close().
NextShutdown ==
    \/ connect_all_servers(SeqsUpTo(CloseConfigs, MaxServers))
    \/ connect_server_env
    \/ connect_server_start
    \/ connect_server_handshake({<<ToolT>>})
    \/ connect_server_restore
    \/ close
    \/ get_all_tools(1)
    \/ execute_tool_call({Qualify(NameA, ToolT), ToolT}, RouteArguments, RouteResponses)
    \/ caller_continues

SpecShutdown == Init /\ [][NextShutdown]_vars

\* SpecFrame: one backend connected under every environment override, then
\* catalog queries, calls and close().
FrameConfigs == { ServerConfig(NameA, e) : e \in EnvChoices }

NextFrame ==
    \/ connect_all_servers(SeqsUpTo(FrameConfigs, MaxServers))
    \/ connect_server_env
    \/ connect_server_start
    \/ connect_server_handshake({<<ToolT>>})
    \/ connect_server_restore
    \/ close
    \/ get_all_tools(1)
    \/ execute_tool_call({Qualify(NameA, ToolT), ToolT, ToolX},
                         RouteArguments, RouteResponses)
    \/ caller_continues

SpecFrame == Init /\ [][NextFrame]_vars

\* SpecCatalog: pools of every backend name and tool list, catalog queries one
\* after another, each with its own list_tools failures.
NextCatalog ==
    \/ connect_all_servers(SeqsUpTo(RouteConfigs, MaxServers))
    \/ connect_server_env
    \/ connect_server_start
    \/ connect_server_handshake(ToolLists)
    \/ connect_server_restore
    \/ get_all_tools(MaxQueries)
    \/ caller_continues

SpecCatalog == Init /\ [][NextCatalog]_vars

-----------------------------------------------------------------------------
(* Claims about connecting (SpecEnv). *)

FailedAtLaunch(a) == a.outcome \in {"ok", "start_failed", "handshake_failed"}

\* C3: between connect attempts run one after another, and after the last of
\* them, every environment variable has the value (or the absence) it had before
\* the first, provided each attempt so far succeeded or failed at the process
\* start or at the handshake.
C3_EnvironRestored ==
    (/\ pc \in {"env", "idle"}
     /\ \A i \in 1..Len(attempts) : FailedAtLaunch(attempts[i]))
    => \A k \in EnvVars : environ[k] = InitialEnviron[k]

\* C3's case: a failed and a successful attempt, each under overrides, one of
\* a variable that was not set, are over.
C3_Witness ==
    /\ pc = "idle"
    /\ Len(attempts) = 2
    /\ attempts[1].outcome = "handshake_failed"
    /\ attempts[2].outcome = "ok"
    /\ given[1].env = <<EnvItem("Y", "y1"), EnvItem("X", "x2")>>
    /\ given[2].env = <<EnvItem("X", "x1")>>

OkNames == { attempts[i].name : i \in { j \in 1..Len(attempts) :
                                            attempts[j].outcome = "ok" } }

\* C5: connect_all_servers attempts the descriptors in the given order, goes on
\* after a failed attempt, never ends with an exception, and when it has
\* returned every descriptor was attempted and the keys of the pool are the
\* names of the descriptors whose attempt succeeded.
C5_ConnectAllBestEffort ==
    /\ pc # "raised"
    /\ Len(attempts) <= Len(given)
    /\ \A i \in 1..Len(attempts) : attempts[i].name = given[i].name
    /\ pc \notin {"new", "idle"} => servers = SubSeq(given, Len(attempts) + 1, Len(given))
    /\ pc = "idle" => /\ Len(attempts) = Len(given)
                      /\ SessionNames(sessions) = OkNames

\* C5's case: the first attempt failed, the second succeeded, and
\* connect_all_servers has returned.
C5_Witness ==
    /\ pc = "idle"
    /\ Len(given) = 2
    /\ attempts[1].outcome # "ok"
    /\ attempts[2].outcome = "ok"
    /\ SessionNames(sessions) = {given[2].name}

\* C30: when an override cannot be set after earlier ones were applied, the
\* attempt is reported as failed and the variables it had overridden are
\* back at their prior value or absence: between the attempts and after the
\* last the environment is the initial one.
C30_PartialOverridesRestored ==
    (/\ pc \in {"env", "idle"}
     /\ \E i \in 1..Len(attempts) : attempts[i].outcome = "env_error")
    => /\ \A i \in 1..Len(attempts) :
             attempts[i].outcome = "env_error"
             => \A e \in 1..Len(sessions) : sessions[e].sid # i
       /\ \A k \in EnvVars : environ[k] = InitialEnviron[k]

\* What the environment is while the attempt for config is at its launch or
\* handshake, when nothing but that attempt's overrides is in effect.
WindowOf(config) == ApplyEnv(InitialEnviron, config.env, 1, <<>>).environ

\* C25: within one connect_all_servers call one override window is open at a
\* time: during the launch and the handshake of a backend the environment is
\* the initial one under that backend's overrides, and outside any attempt it
\* is the initial one.
C25_OneWindowAtATime ==
    /\ pc \in {"new", "env", "idle"} => environ = InitialEnviron
    /\ pc \in {"start", "handshake"} => environ = WindowOf(Head(servers))

-----------------------------------------------------------------------------
(* Claims about the catalog and the routing (Spec). *)

\* fn is b, an underscore, and a local name.
IsQualifiedBy(fn, b) ==
    /\ Len(fn) > Len(b)
    /\ SubSeq(fn, 1, Len(b)) = b
    /\ fn[Len(b) + 1] = US

LocalPart(fn, b) == SubSeq(fn, Len(b) + 2, Len(fn))

NoUnderscore(n) == \A i \in 1..Len(n) : n[i] # US

\* The last call got past its arguments and was sent to session e as tool t.
SentTo(e, t) ==
    /\ Len(last.called) = 1
    /\ last.called[1].server = e.name
    /\ last.called[1].sid = e.sid
    /\ last.called[1].tool = t

Returned == last.done /\ ~last.raised

\* C1 as stated: a call by b_t, b a live backend whose name has no underscore,
\* goes to b's session as tool t.
C1_AsStated ==
    \A i \in 1..Len(sessions) :
        (/\ Returned
         /\ NoUnderscore(sessions[i].name)
         /\ IsQualifiedBy(last.fn_name, sessions[i].name))
        => SentTo(sessions[i], LocalPart(last.fn_name, sessions[i].name))

\* C1, amended: a call by b_t, b a live backend whose name is not empty and has
\* no underscore, goes to b's session as tool t (t may hold underscores),
\* whatever other backends are live and whatever tools they have, and no
\* session is asked for its tools.
C1_QualifiedNameRoutes ==
    \A i \in 1..Len(sessions) :
        (/\ Returned
         /\ sessions[i].name # <<>>
         /\ NoUnderscore(sessions[i].name)
         /\ IsQualifiedBy(last.fn_name, sessions[i].name))
        => /\ SentTo(sessions[i], LocalPart(last.fn_name, sessions[i].name))
           /\ last.listed = <<>>

\* C1's case: b_b_t was called with a and b live, a first and with a tool b_t
\* of its own, and went to b as b_t.
C1_Witness ==
    /\ Returned
    /\ Len(sessions) = 2
    /\ sessions[1].name = NameA
    /\ sessions[1].tools = <<ToolBT, ToolT>>
    /\ sessions[2].name = NameB
    /\ last.fn_name = Qualify(NameB, ToolBT)
    /\ SentTo(sessions[2], ToolBT)

HasTool(e, n) == \E j \in 1..Len(e.tools) : e.tools[j] = n

Owners(n) == { i \in 1..Len(sessions) : HasTool(sessions[i], n) }

\* n carries no backend prefix: it has no underscore, or what stands before its
\* first underscore is not the name of a live backend.
IsBare(n) ==
    \/ NoUnderscore(n)
    \/ SubSeq(n, 1, FirstUnderscore(n) - 1) \notin SessionNames(sessions)

\* C2: a call by a bare name n, every list_tools it issued having answered,
\* goes as tool n to the one live backend that has a tool n, and ends with the
\* not-found string, nothing sent, when no live backend has one.
C2_BareNameResolves ==
    (/\ Returned
     /\ IsBare(last.fn_name)
     /\ \A k \in 1..Len(last.listed) : last.listed[k].ok)
    => /\ \A i \in Owners(last.fn_name) :
              Owners(last.fn_name) = {i} => SentTo(sessions[i], last.fn_name)
       /\ Owners(last.fn_name) = {} => /\ last.called = <<>>
                                       /\ last.ret.kind = "notfound"

CatalogHas(n) == \E k \in 1..Len(catalog.tools) : catalog.tools[k].name = n

\* C6 as stated, for any two live backends i and j that both have a tool t:
\* a catalog fetched without failure holds <i>_t and <j>_t, and a call by
\* <i>_t goes to i as tool t.
C6_AsStated ==
    \A i, j \in 1..Len(sessions) : \A t \in LocalNames :
        (i # j /\ HasTool(sessions[i], t) /\ HasTool(sessions[j], t))
        => /\ (catalog.queried /\ catalog.failed = {})
                  => /\ CatalogHas(Qualify(sessions[i].name, t))
                     /\ CatalogHas(Qualify(sessions[j].name, t))
           /\ (Returned /\ last.fn_name = Qualify(sessions[i].name, t))
                  => SentTo(sessions[i], t)

PlainName(n) == n # <<>> /\ NoUnderscore(n)

\* C6, amended: the same for two live backends whose names are not empty and
\* hold no underscore.
C6_SameToolTwoBackends ==
    \A i, j \in 1..Len(sessions) : \A t \in LocalNames :
        (/\ i # j
         /\ PlainName(sessions[i].name) /\ PlainName(sessions[j].name)
         /\ HasTool(sessions[i], t) /\ HasTool(sessions[j], t))
        => /\ (catalog.queried /\ catalog.failed = {})
                  => /\ CatalogHas(Qualify(sessions[i].name, t))
                     /\ CatalogHas(Qualify(sessions[j].name, t))
           /\ (Returned /\ last.fn_name = Qualify(sessions[i].name, t))
                  => SentTo(sessions[i], t)

\* C6's case: a and b both have t, the catalog holds a_t and b_t, and the call
\* by b_t, a name of the catalog, went to b, the second of the two.
C6_Witness ==
    /\ Len(sessions) = 2
    /\ sessions[1].name = NameA /\ HasTool(sessions[1], ToolT)
    /\ sessions[2].name = NameB /\ HasTool(sessions[2], ToolT)
    /\ catalog.queried
    /\ CatalogHas(Qualify(NameA, ToolT)) /\ CatalogHas(Qualify(NameB, ToolT))
    /\ Returned
    /\ last.fn_name = Qualify(NameB, ToolT)
    /\ SentTo(sessions[2], ToolT)

DistinctTools(e) ==
    \A j, k \in 1..Len(e.tools) : j # k => e.tools[j] # e.tools[k]

\* C7: in a catalog no two entries have the same qualified name, when each
\* backend's tool names are pairwise distinct (the names of the backends of a
\* pool always are).
C7_QualifiedNamesUnique ==
    (/\ catalog.queried
     /\ \A i \in 1..Len(sessions) : DistinctTools(sessions[i]))
    => \A j, k \in 1..Len(catalog.tools) :
           j # k => catalog.tools[j].name # catalog.tools[k].name

SessionOf(n) == sessions[IndexOfName(sessions, n)]

\* C19 as stated: a call by a name of the catalog goes to the backend that
\* contributed the entry, as the tool that backend reported.
C19_AsStated ==
    (catalog.queried /\ Returned)
    => \A k \in 1..Len(catalog.tools) :
           catalog.tools[k].name = last.fn_name
           => SentTo(SessionOf(catalog.tools[k].server), catalog.tools[k].local)

\* C19, amended: a call by a name the catalog holds for a backend whose name
\* is not empty and has no underscore goes to that backend, as the tool that
\* backend reported.
C19_CatalogRoundTrip ==
    (catalog.queried /\ Returned)
    => \A k \in 1..Len(catalog.tools) :
           (/\ catalog.tools[k].name = last.fn_name
            /\ PlainName(catalog.tools[k].server))
           => SentTo(SessionOf(catalog.tools[k].server), catalog.tools[k].local)

\* C19's case: the catalog of a and b holds a_b_t for a's tool b_t, and the
\* call by a_b_t went to a as b_t.
C19_Witness ==
    /\ catalog.queried /\ Returned
    /\ Len(sessions) = 2
    /\ sessions[1].name = NameA /\ sessions[2].name = NameB
    /\ \E k \in 1..Len(catalog.tools) :
          /\ catalog.tools[k].name = last.fn_name
          /\ catalog.tools[k].server = NameA
          /\ catalog.tools[k].local = ToolBT
    /\ SentTo(sessions[1], ToolBT)

\* What stands before the first underscore of n, and what stands after it.
Prefix(n) == SubSeq(n, 1, FirstUnderscore(n) - 1)
Remainder(n) == SubSeq(n, FirstUnderscore(n) + 1, Len(n))

\* C20 as stated: a call by a name whose part before the first underscore
\* names a live session goes to that session with the remainder as tool, and
\* no session is asked for its tools.
C20_AsStated ==
    (/\ Returned
     /\ HasUnderscore(last.fn_name)
     /\ Prefix(last.fn_name) \in SessionNames(sessions))
    => /\ SentTo(SessionOf(Prefix(last.fn_name)), Remainder(last.fn_name))
       /\ last.listed = <<>>

\* C20, amended: a call by a name whose part before the first underscore is
\* not empty and names a live session goes to that session with the remainder
\* as tool, and no session is asked for its tools, whatever tools that
\* session and the others have.
C20_PrefixWins ==
    (/\ Returned
     /\ HasUnderscore(last.fn_name)
     /\ Prefix(last.fn_name) # <<>>
     /\ Prefix(last.fn_name) \in SessionNames(sessions))
    => /\ SentTo(SessionOf(Prefix(last.fn_name)), Remainder(last.fn_name))
       /\ last.listed = <<>>

\* C20's case: b has no tool t and a, first in the pool, has the tool b_t; the
\* call by b_t went to b as t and no list_tools was issued.
C20_Witness ==
    /\ Returned
    /\ Len(sessions) = 2
    /\ sessions[1].name = NameA /\ HasTool(sessions[1], ToolBT)
    /\ sessions[2].name = NameB /\ ~HasTool(sessions[2], ToolT)
    /\ last.fn_name = ToolBT
    /\ SentTo(sessions[2], ToolT)
    /\ last.listed = <<>>

Min(S) == CHOOSE i \in S : \A j \in S : i <= j

AllAnswered == \A k \in 1..Len(last.listed) : last.listed[k].ok

\* C21: when the scan is used for a name that several live sessions have as a
\* tool, and list_tools answers, the call goes to the earliest of them in the
\* order of the pool, and the sessions after it are not asked for their tools.
C21_FirstMatchWins ==
    (/\ Returned
     /\ IsBare(last.fn_name)
     /\ AllAnswered
     /\ Cardinality(Owners(last.fn_name)) >= 2)
    => LET first == Min(Owners(last.fn_name))
       IN  /\ SentTo(sessions[first], last.fn_name)
           /\ last.listed = [k \in 1..first |-> Listed(sessions[k].name, TRUE)]

\* The sessions whose list_tools raised during the scan of the last call.
FailedInScan == { last.listed[k].server :
                    k \in { j \in 1..Len(last.listed) : ~last.listed[j].ok } }

\* C22: during the scan a session whose list_tools fails is passed over: the
\* call goes to the earliest session that answered and has the name as a
\* tool, and when list_tools fails for every session the not-found string is
\* returned and nothing is raised.
C22_ScanSkipsFailures ==
    (last.done /\ IsBare(last.fn_name))
    => LET able == { i \in Owners(last.fn_name) : sessions[i].name \notin FailedInScan }
       IN  /\ ~last.raised
           /\ able # {} => SentTo(sessions[Min(able)], last.fn_name)
           /\ SessionNames(sessions) \subseteq FailedInScan
                 => last.called = <<>> /\ last.ret.kind = "notfound"

\* The attempt that opened session sid got through the process start and the
\* handshake: it is reported as connected, or it is the attempt in progress,
\* past initialize() and at its finally clause.
Connected(n, sid) ==
    \/ /\ sid \in 1..Len(attempts)
       /\ attempts[sid].outcome = "ok"
       /\ attempts[sid].name = n
    \/ /\ sid = NextSid
       /\ pc = "restore" /\ exc = "none"
       /\ Head(servers).name = n

OnExitStack(c) == \E k \in 1..Len(exit_stack) : exit_stack[k] = c

\* C26: the pool holds a backend name only with a session whose process start
\* and handshake both completed; a call is sent to a session of the pool
\* only, and a catalog lists tools of the backends of the pool only.
C26_PoolHoldsConnectedOnly ==
    /\ \A i \in 1..Len(sessions) :
          /\ Connected(sessions[i].name, sessions[i].sid)
          /\ OnExitStack(Context("transport", sessions[i].sid))
          /\ OnExitStack(Context("session", sessions[i].sid))
    /\ \A k \in 1..Len(last.called) :
          \E i \in 1..Len(sessions) :
              /\ sessions[i].name = last.called[k].server
              /\ sessions[i].sid = last.called[k].sid
    /\ \A k \in 1..Len(last.listed) : last.listed[k].server \in SessionNames(sessions)
    /\ \A k \in 1..Len(catalog.tools) :
          catalog.tools[k].server \in SessionNames(sessions)

\* C26's case: the handshake of a failed and b connected; the call by t was
\* resolved by asking b alone and sent to b.
C26_Witness ==
    /\ Len(attempts) = 2
    /\ attempts[1].name = NameA /\ attempts[1].outcome = "handshake_failed"
    /\ attempts[2].name = NameB /\ attempts[2].outcome = "ok"
    /\ SessionNames(sessions) = {NameB}
    /\ Returned
    /\ last.fn_name = ToolT
    /\ last.listed = <<Listed(NameB, TRUE)>>
    /\ SentTo(sessions[1], ToolT)

\* C28: a call of execute_tool_call issues one call_tool at most, to a session
\* of the pool, and none when no session is found for the name.
C28_AtMostOneCall ==
    last.done =>
        /\ Len(last.called) <= 1
        /\ last.ret.kind = "notfound" => last.called = <<>>
        /\ (Returned /\ last.called = <<>>) => last.ret.kind = "notfound"
        /\ \A k \in 1..Len(last.called) :
              \E i \in 1..Len(sessions) : SentTo(sessions[i], last.called[k].tool)

\* C28's case: two sessions were asked for their tools, neither has the name,
\* and the call returned the not-found string without a call_tool.
C28_Witness ==
    /\ Returned
    /\ Len(sessions) = 2
    /\ Len(last.listed) = 2
    /\ last.ret.kind = "notfound"
    /\ last.called = <<>>

-----------------------------------------------------------------------------
(* Claims about the execution and the rendering (SpecRender). *)

\* C4: execute_tool_call never raises: whatever the name, the arguments and the
\* backend's behaviour, the call ends by returning one of its strings.
C4_NeverRaises ==
    last.done => /\ ~last.raised
                 /\ last.ret.kind \in {"body", "placeholder", "summary",
                                       "notfound", "error"}

\* The call reached call_tool and call_tool returned a result.
Answered == Returned /\ Len(last.called) = 1 /\ ~last.response.raises

\* The response carries the image payload as the text of its first content
\* item, or as the single content object.
ImageFirst(c) ==
    \/ c.form = "list" /\ Len(c.items) > 0 /\ c.items[1] = ImageText
    \/ c.form = "dict" /\ c.value = ImageDict

\* The response carries the image payload as the text of a content item at any
\* place, or as the single content object.
ImageAnywhere(c) ==
    \/ c.form = "list" /\ \E i \in 1..Len(c.items) : c.items[i] = ImageText
    \/ c.form = "dict" /\ c.value = ImageDict

\* The returned string is a stringification of content that holds the payload.
HoldsPayload(ret) == ret.kind = "body" /\ ImageAnywhere(ret.content)

\* C8: a rendered string (the result is no image result and its stringification
\* does not raise) longer than 10*1024*1024 is replaced by the summary, with
\* the tool name and the measured size; one of at most that length is returned
\* as it is.
C8_SizeLimit ==
    (/\ Answered
     /\ ~last.response.str_raises
     /\ ~ImageFirst(last.response.content))
    => IF last.response.size > 10 * 1024 * 1024
       THEN /\ last.ret.kind = "summary"
            /\ last.ret.size = last.response.size
            /\ last.ret.tool = last.called[1].tool
            /\ last.ret.content = NoContent
       ELSE /\ last.ret.kind = "body"
            /\ last.ret.size = last.response.size
            /\ last.ret.content = last.response.content

\* C8's case: a string of 10*1024*1024 + 1 characters was rendered and the
\* summary returned.
C8_Witness ==
    /\ Answered
    /\ last.response.size = 10 * 1024 * 1024 + 1
    /\ last.response.content.form = "list"
    /\ last.ret.kind = "summary"

\* C9 as stated: a response that carries the image payload, at any place of the
\* content sequence or as the content object, is answered by the placeholder
\* naming the tool, and the returned string does not hold the payload.
C9_AsStated ==
    (Answered /\ ImageAnywhere(last.response.content))
    => /\ last.ret.kind = "placeholder"
       /\ last.ret.tool = last.called[1].tool
       /\ ~HoldsPayload(last.ret)

\* C9, amended: a response that carries the image payload as the text of its
\* first content item, or as the content object, is answered by the
\* placeholder naming the tool, and the returned string does not hold the
\* payload.
C9_ImagePlaceholder ==
    (Answered /\ ImageFirst(last.response.content))
    => /\ last.ret.kind = "placeholder"
       /\ last.ret.tool = last.called[1].tool
       /\ ~HoldsPayload(last.ret)

\* C9's case: the first of two content items is the image payload, and the
\* placeholder was returned.
C9_Witness ==
    /\ Answered
    /\ last.response.content.form = "list"
    /\ Len(last.response.content.items) = 2
    /\ last.response.content.items[1] = ImageText
    /\ last.ret.kind = "placeholder"

\* The argument texts of the model that are not JSON texts.
NotJson == {RawNotJson, RawDeep}

\* C10: a call whose arguments are not valid JSON raises nothing, sends an
\* empty argument object, and asks, sends and returns what the same call with
\* the arguments "{}" does.
C10_BadArguments ==
    (last.done /\ last.arguments \in NotJson)
    => /\ ~last.raised
       /\ \A k \in 1..Len(last.called) : last.called[k].args = EmptyObject
       /\ \E failing \in SUBSET SessionNames(sessions) :
             LET v == ExecuteToolCall(sessions, last.fn_name, RawEmptyObject,
                                      failing, last.response)
             IN  /\ v.listed = last.listed
                 /\ v.called = last.called
                 /\ v.ret = last.ret

-----------------------------------------------------------------------------
(* Claims about the catalog (SpecCatalog). *)

\* The place of backend n in the order of connection: the first attempt that
\* put n in the pool.
FirstOk(n) == CHOOSE i \in 1..Len(attempts) :
                 /\ attempts[i].name = n /\ attempts[i].outcome = "ok"
                 /\ \A j \in 1..(i - 1) :
                       ~(attempts[j].name = n /\ attempts[j].outcome = "ok")

EntriesOf(n) == SelectSeq(catalog.tools, LAMBDA c : c.server = n)

\* The catalog lists the backends in the order of their connection, and the
\* tools of a backend that answered in the order of its list_tools.
InConnectionOrder ==
    /\ \A k, l \in 1..Len(catalog.tools) :
          k < l => FirstOk(catalog.tools[k].server) <= FirstOk(catalog.tools[l].server)
    /\ \A i \in 1..Len(sessions) :
          sessions[i].name \notin catalog.failed
          => /\ Len(EntriesOf(sessions[i].name)) = Len(sessions[i].tools)
             /\ \A k \in 1..Len(sessions[i].tools) :
                   EntriesOf(sessions[i].name)[k].local = sessions[i].tools[k]

\* C14 as stated: the catalog is in connection order, then native order, and
\* a second query, the pool and the tool sets being the same, returns the
\* sequence the first returned.
C14_AsStated ==
    catalog.queried =>
        /\ InConnectionOrder
        /\ catalog.count >= 2 => catalog.tools = catalog.before.tools

\* C14, amended: the catalog is in connection order, then native order, and
\* a second query, the pool and the tool sets being the same and list_tools
\* failing for the same backends as in the first, returns the sequence the
\* first returned.
C14_CatalogOrder ==
    catalog.queried =>
        /\ InConnectionOrder
        /\ (catalog.count >= 2 /\ catalog.failed = catalog.before.failed)
              => catalog.tools = catalog.before.tools

\* C14's case: a and b are connected in this order, and the second of two
\* queries, no list_tools failing, returned b_t, t of a, then t of b, as the
\* first.
C14_Witness ==
    /\ catalog.count = 2
    /\ catalog.failed = {} /\ catalog.before.failed = {}
    /\ Len(sessions) = 2
    /\ sessions[1].name = NameA /\ sessions[1].tools = <<ToolBT, ToolT>>
    /\ sessions[2].name = NameB /\ sessions[2].tools = <<ToolT>>
    /\ Len(catalog.tools) = 3
    /\ catalog.tools[1].name = Qualify(NameA, ToolBT)
    /\ catalog.tools[3].name = Qualify(NameB, ToolT)
    /\ catalog.before.tools = catalog.tools

\* C15: when list_tools fails for live backends during a query, the query
\* returns, none of their tools is in the result, the tools of every other
\* live backend are, complete and in order, and the failing backends stay in
\* the pool.
C15_FailingBackendSkipped ==
    catalog.queried =>
        /\ catalog.failed \subseteq SessionNames(sessions)
        /\ \A k \in 1..Len(catalog.tools) :
              /\ catalog.tools[k].server \in SessionNames(sessions) \ catalog.failed
              /\ catalog.tools[k].name =
                     Qualify(catalog.tools[k].server, catalog.tools[k].local)
        /\ \A i \in 1..Len(sessions) :
              IF sessions[i].name \in catalog.failed
              THEN EntriesOf(sessions[i].name) = <<>>
              ELSE /\ Len(EntriesOf(sessions[i].name)) = Len(sessions[i].tools)
                   /\ \A k \in 1..Len(sessions[i].tools) :
                         EntriesOf(sessions[i].name)[k].local = sessions[i].tools[k]

\* C15's case: list_tools failed for a, the first of two backends with
\* tools, and the catalog is the tools of b.
C15_Witness ==
    /\ catalog.queried
    /\ Len(sessions) = 2
    /\ sessions[1].name = NameA /\ sessions[1].tools = <<ToolBT, ToolT>>
    /\ sessions[2].name = NameB /\ sessions[2].tools = <<ToolT>>
    /\ catalog.failed = {NameA}
    /\ Len(catalog.tools) = 1
    /\ catalog.tools[1].name = Qualify(NameB, ToolT)

-----------------------------------------------------------------------------
(* Claims about backends that change their tools (SpecFresh). *)

\* C24: nothing is cached: a catalog holds, for every backend that answered,
\* the tools the backend had when it was queried, and a call by a bare name is
\* resolved by the tools the backends have when it is made, whatever they had
\* before.
C24_NoCache ==
    /\ (catalog.queried /\ ~catalog.stale)
          => \A i \in 1..Len(sessions) :
                 sessions[i].name \notin catalog.failed
                 => /\ Len(EntriesOf(sessions[i].name)) = Len(sessions[i].tools)
                    /\ \A k \in 1..Len(sessions[i].tools) :
                          /\ EntriesOf(sessions[i].name)[k].local = sessions[i].tools[k]
                          /\ EntriesOf(sessions[i].name)[k].name =
                                 Qualify(sessions[i].name, sessions[i].tools[k])
    /\ (Returned /\ NoUnderscore(last.fn_name) /\ AllAnswered)
          => IF Owners(last.fn_name) = {}
             THEN last.called = <<>> /\ last.ret.kind = "notfound"
             ELSE SentTo(sessions[Min(Owners(last.fn_name))], last.fn_name)

\* C24's case: a had the tool t, a first query returned a_t, a added the tool
\* b_t, and the second query returned a_b_t and a_t.
C24_Witness ==
    /\ catalog.count = 2 /\ ~catalog.stale
    /\ catalog.failed = {} /\ catalog.before.failed = {}
    /\ Len(sessions) = 1
    /\ sessions[1].name = NameA
    /\ sessions[1].was = <<ToolT>> /\ sessions[1].tools = <<ToolBT, ToolT>>
    /\ Len(catalog.before.tools) = 1
    /\ catalog.before.tools[1].name = Qualify(NameA, ToolT)
    /\ Len(catalog.tools) = 2
    /\ catalog.tools[1].name = Qualify(NameA, ToolBT)

-----------------------------------------------------------------------------
(* Claims about concurrent connect attempts (SpecConc). *)

Finished(t) == tasks[t].pc \in {"done", "failed"}

\* C16: when connect attempts that ran at the same time, in whatever
\* interleaving of their awaits, have all completed, every environment
\* variable has the value (or the absence) it had before the first began.
C16_ConcurrentConnectRestores ==
    (\A t \in Tasks : Finished(t)) => \A k \in EnvVars : environ[k] = InitialEnviron[k]

-----------------------------------------------------------------------------
(* Claims about close() (SpecClose). *)

\* The attempts that entered a transport (and then a session) on the exit
\* stack: those whose process started.
Started == { i \in 1..Len(attempts) : attempts[i].outcome \in {"ok", "handshake_failed"} }

Releases(c) == Cardinality({ k \in 1..Len(released) : released[k] = c })

\* C11: close() is idempotent: the second and every later call raises nothing
\* and releases nothing, so that once close() was called, however often, each
\* session and each transport that was opened has been released exactly once.
C11_CloseIdempotent ==
    /\ \A k \in 2..Len(closes) : ~closes[k].raised /\ closes[k].released = 0
    /\ Len(closes) >= 1 =>
          \A i \in Started : /\ Releases(Context("transport", i)) = 1
                              /\ Releases(Context("session", i)) = 1
    /\ \A k \in 1..Len(released) : Releases(released[k]) = 1

\* C11's case: close() was called three times with two backends connected.
C11_Witness ==
    /\ Len(closes) = 3
    /\ closes[1].released = 4
    /\ Len(released) = 4

\* C12: after close(), every transport and session that a connect attempt
\* opened is released and none is left on the exit stack, that of a backend
\* whose handshake failed, which is not in the pool, included.
C12_CloseReleasesAll ==
    Len(closes) >= 1 =>
        /\ exit_stack = <<>>
        /\ \A i \in Started :
              /\ \E k \in 1..Len(released) : released[k] = Context("transport", i)
              /\ \E k \in 1..Len(released) : released[k] = Context("session", i)

\* C12's case: the first backend's handshake failed, the second connected, and
\* close() released the transport of the first.
C12_Witness ==
    /\ Len(closes) = 1
    /\ Len(attempts) = 2
    /\ attempts[1].outcome = "handshake_failed"
    /\ attempts[2].outcome = "ok"
    /\ attempts[1].name \notin SessionNames(sessions)
    /\ \E k \in 1..Len(released) : released[k] = Context("transport", 1)

\* C13: close() releases the backends in the reverse of the order of their
\* connection, and of one backend the session before the transport.
C13_CloseOrder ==
    \A k, l \in 1..Len(released) :
        k < l => /\ released[k].sid >= released[l].sid
                 /\ released[k].sid = released[l].sid
                       => released[k].kind = "session" /\ released[l].kind = "transport"

\* C13's case: two backends were connected and close() released the session
\* and the transport of the second, then those of the first.
C13_Witness ==
    /\ Len(closes) >= 1
    /\ released = <<Context("session", 2), Context("transport", 2),
                    Context("session", 1), Context("transport", 1)>>

-----------------------------------------------------------------------------
(* Claims about the returned string (SpecRender). *)

\* What a returned string may hold beside the body: the longest of the fixed
\* texts, with room for the tool name twice.
Overhead(tool) == 256 + 2 * Len(tool)

\* C17: every string execute_tool_call returns, on every path, is at most
\* 10*1024*1024 characters and an overhead that depends on the tool name only.
C17_ReturnBounded ==
    Returned => RetLen(last.ret) <= 10 * 1024 * 1024 + Overhead(last.ret.tool)

\* C18: when call_tool returns a result that reports a tool-level error, the
\* error string is returned and the result is not rendered as a success.
C18_ToolErrorReported ==
    (Answered /\ last.response.is_error) => last.ret.kind = "error"

\* A step that shapes the response raised, and it was not the stringification
\* of the content itself: the inspection of the first item, the parsing of its
\* text or json.dumps for a response with content; str(result) for one
\* without.
ShapingRaised(resp) ==
    IF resp.content.form # "absent"
    THEN InspectContent(resp).tag = "raise" /\ ~resp.str_raises
    ELSE resp.str_raises

\* C23: when a step that shapes the response raises, the raw stringification
\* of the content is what execute_tool_call goes on with: it is returned, or
\* the summary when it is longer than 10*1024*1024, and neither the error
\* string is returned nor an exception raised.
C23_RenderFallback ==
    (/\ last.done
     /\ Len(last.called) = 1
     /\ ~last.response.raises
     /\ ShapingRaised(last.response))
    => /\ ~last.raised
       /\ IF last.response.size > 10 * 1024 * 1024
          THEN last.ret.kind = "summary"
          ELSE last.ret.kind = "body" /\ last.ret.via = "str(content)"

\* The argument object the raw arguments stand for: the parsed value when it
\* is an object, the empty object in every other case.
ObjectOf(arguments) ==
    LET args_raw == IF arguments \in {RawNone, ""} THEN RawEmptyObject ELSE arguments
        r == json_loads(args_raw)
    IN  IF r.outcome = "value" /\ r.value.jtype = "object"
        THEN r.value
        ELSE EmptyObject

\* C29: what is forwarded to call_tool as arguments is a JSON object: the
\* parsed object when the raw arguments parse to one, the empty object in
\* every other case.
C29_ArgumentsAreObject ==
    \A k \in 1..Len(last.called) :
        /\ last.called[k].args.jtype = "object"
        /\ last.called[k].args = ObjectOf(last.arguments)

-----------------------------------------------------------------------------
(* Claims about calls after close() (SpecShutdown). *)

Closed(sid) == \E k \in 1..Len(released) : released[k] = Context("session", sid)

\* C27: once close() has completed the pool holds no session that close()
\* released, so that no later catalog query or call reaches one.
C27_NoClosedSessionInPool ==
    Len(closes) >= 1 => \A i \in 1..Len(sessions) : ~Closed(sessions[i].sid)

-----------------------------------------------------------------------------
(* Claims about what the operations leave alone (SpecFrame). *)

\* The step is a catalog query, a tool call, a call of close(); the state is
\* within a connect attempt.
QueryStep == catalog'.count = catalog.count + 1
CallStep == ~last.done /\ last'.done
CloseStep == Len(closes') = Len(closes) + 1
InAttempt == pc \in {"env", "start", "handshake", "restore"}

EnvKeys(config) == { config.env[i].key : i \in 1..Len(config.env) }

\* C31: a catalog query and a tool call leave the pool and the environment as
\* they are; a step of a connect attempt leaves every variable that is no key
\* of the descriptor's env as it is (every variable, when the env is empty);
\* close() leaves the environment as it is.
C31_Frame ==
    [][ /\ (QueryStep \/ CallStep) => sessions' = sessions /\ environ' = environ
        /\ CloseStep => environ' = environ
        /\ InAttempt => \A k \in EnvVars \ EnvKeys(Head(servers)) :
                            environ'[k] = environ[k] ]_vars

\* C31's case: a was connected under an override of X, which leaves Y alone;
\* the catalog was queried, a call made and close() called, and the pool
\* holds a and the environment is the initial one.
C31_Witness ==
    /\ Len(given) = 1
    /\ given[1].env = <<EnvItem("X", "x1")>>
    /\ SessionNames(sessions) = {NameA}
    /\ catalog.queried
    /\ Returned /\ Len(last.called) = 1
    /\ Len(closes) = 1
    /\ environ = InitialEnviron

=============================================================================
